---- MODULE Spec2Model ----
(***************************************************************************)
(* A model of the trie map of trie-rs: the naive construction trie         *)
(* (NaiveTrie::push), its breadth-first emission (NaiveTrieBFIter), the    *)
(* LOUDS bit string with its label table, and the search operations of     *)
(* map::Trie.                                                              *)
(***************************************************************************)
EXTENDS Integers, Sequences, FiniteSets, TLC

\* ------------------------------------------------------------------------
\* Bounds
\* ------------------------------------------------------------------------
MaxKeyLen == 2
MaxPushes == 2

\* the label alphabet (two labels, 1 < 2) and the payloads
Labels == {1, 2}
Values == {1, 2}

SeqsUpTo(S, n) == UNION {[1..m -> S] : m \in 0..n}

\* keys the builder is given, and queries (one label longer than any key)
Keys == SeqsUpTo(Labels, MaxKeyLen)
Queries == SeqsUpTo(Labels, MaxKeyLen + 1)

\* ------------------------------------------------------------------------
\* Option / panic results
\* ------------------------------------------------------------------------
None == [tag |-> "None", val |-> 0]
Some(x) == [tag |-> "Some", val |-> x]
Panic(msg) == [tag |-> "panic", val |-> msg]
Ok(j) == [tag |-> "Ok", val |-> j]
Err(j) == [tag |-> "Err", val |-> j]
Bool(b) == [tag |-> "Bool", val |-> b]
Items(s) == [tag |-> "Items", val |-> s]

\* ------------------------------------------------------------------------
\* TrieLabel cells and their ordering against a label
\* ------------------------------------------------------------------------
LabelCell(l) == [tag |-> "Label", x |-> l]
ValueCell(v) == [tag |-> "Value", x |-> v]
NoCell == [tag |-> "NoCell", x |-> 0]

\* Ord for the label type (integers here)
cmp(a, b) == IF a < b THEN "Less" ELSE IF a = b THEN "Equal" ELSE "Greater"

\* a variant in which a Value cell compares Equal to any label
partial_cmp_value_equal(cell, other) ==
    IF cell.tag = "Label" THEN cmp(cell.x, other) ELSE "Equal"

\* impl PartialOrd<Label> for TrieLabel: a Value cell is Less than any label
partial_cmp(cell, other) ==
    IF cell.tag = "Label" THEN cmp(cell.x, other) ELSE "Less"

\* ------------------------------------------------------------------------
\* slice::binary_search_by over the sequence of comparison outcomes of the
\* elements (cmps[i+1] is the outcome of the closure on element i; "panic"
\* when the closure panics on that element).  The closure runs only on the
\* elements the search probes.  Two probe orders are modelled: the one of
\* the current standard library ("base_half") and the earlier one
\* ("left_right").
\* ------------------------------------------------------------------------
StdImpls == {"base_half", "left_right"}

RECURSIVE bs_base_half(_, _, _)
bs_base_half(cmps, base, size) ==
    IF size > 1
    THEN LET half == size \div 2
             mid == base + half
             c == cmps[mid + 1]
         IN IF c = "panic" THEN Panic("closure")
            ELSE bs_base_half(cmps, IF c = "Greater" THEN base ELSE mid, size - half)
    ELSE LET c == cmps[base + 1]
         IN IF c = "panic" THEN Panic("closure")
            ELSE IF c = "Equal" THEN Ok(base)
            ELSE Err(base + (IF c = "Less" THEN 1 ELSE 0))

RECURSIVE bs_left_right(_, _, _)
bs_left_right(cmps, left, right) ==
    IF left < right
    THEN LET mid == left + ((right - left) \div 2)
             c == cmps[mid + 1]
         IN IF c = "panic" THEN Panic("closure")
            ELSE IF c = "Less" THEN bs_left_right(cmps, mid + 1, right)
            ELSE IF c = "Greater" THEN bs_left_right(cmps, left, mid)
            ELSE Ok(mid)
    ELSE Err(left)

binary_search_by(impl, cmps) ==
    IF impl = "base_half"
    THEN (IF Len(cmps) = 0 THEN Err(0) ELSE bs_base_half(cmps, 0, Len(cmps)))
    ELSE bs_left_right(cmps, 0, Len(cmps))

\* ------------------------------------------------------------------------
\* NaiveTrie
\* ------------------------------------------------------------------------
make_root == [kind |-> "Root", label |-> NoCell, children |-> <<>>]
make_interm(l) == [kind |-> "IntermOrLeaf", label |-> LabelCell(l), children |-> <<>>]
make_leaf(v) == [kind |-> "IntermOrLeaf", label |-> ValueCell(v), children |-> <<>>]
PhantomSibling == [kind |-> "PhantomSibling", label |-> NoCell, children |-> <<>>]

\* a variant that puts the element at the end
VecInsert_at_end(s, j, e) == Append(s, e)

\* Vec::insert(j, e), j zero-based
VecInsert(s, j, e) == SubSeq(s, 1, j) \o <<e>> \o SubSeq(s, j + 1, Len(s))

\* a variant that inserts a new Value cell on every push of the key
insert_or_set_value_always_insert(children, v) ==
    VecInsert(children, 0, make_leaf(v))

\* a variant that puts a new Value cell after the other children
insert_or_set_value_at_end(children, v) ==
    IF Len(children) > 0 /\ children[1].kind = "IntermOrLeaf"
                         /\ children[1].label.tag = "Value"
    THEN [children EXCEPT ![1].label = ValueCell(v)]
    ELSE Append(children, make_leaf(v))

insert_or_set_value(children, v) ==
    IF Len(children) > 0 /\ children[1].kind = "IntermOrLeaf"
                         /\ children[1].label.tag = "Value"
    THEN [children EXCEPT ![1].label = ValueCell(v)]
    ELSE VecInsert(children, 0, make_leaf(v))

RECURSIVE push(_, _, _, _)
push(impl, trie, word, v) ==
    IF word = <<>>
    THEN [trie EXCEPT !.children = insert_or_set_value(trie.children, v)]
    ELSE LET chr == Head(word)
             ch == trie.children
             res == binary_search_by(impl,
                        [i \in 1..Len(ch) |-> partial_cmp(ch[i].label, chr)])
             j == res.val
         IN IF res.tag = "Ok"
            THEN [trie EXCEPT !.children[j + 1] = push(impl, ch[j + 1], Tail(word), v)]
            ELSE LET ins == VecInsert(ch, j, make_interm(chr))
                 IN [trie EXCEPT !.children =
                        [ins EXCEPT ![j + 1] = push(impl, ins[j + 1], Tail(word), v)]]

\* ------------------------------------------------------------------------
\* NaiveTrieBFIter
\* ------------------------------------------------------------------------
\* NaiveTrie::drain_children leaves the node without children
drain_children(trie) == [trie EXCEPT !.children = <<>>]

\* NaiveTrieBFIter::new
NaiveTrieBFIter_new(iter_start) == <<iter_start>>

\* a variant that does not close the children list with a phantom sibling
NaiveTrieBFIter_next_no_sibling(unvisited) ==
    LET trie == Head(unvisited)
        rest == Tail(unvisited)
    IN [item |-> drain_children(trie), unvisited |-> rest \o trie.children]

\* a variant that queues the phantom sibling before the children
NaiveTrieBFIter_next_sibling_first(unvisited) ==
    LET trie == Head(unvisited)
        rest == Tail(unvisited)
    IN IF trie.kind \in {"Root", "IntermOrLeaf"}
       THEN [item |-> drain_children(trie),
             unvisited |-> rest \o <<PhantomSibling>> \o trie.children]
       ELSE [item |-> trie, unvisited |-> rest]

\* NaiveTrieBFIter::next on a non-empty queue: the item returned and the
\* queue afterwards
NaiveTrieBFIter_next(unvisited) ==
    LET trie == Head(unvisited)
        rest == Tail(unvisited)
    IN IF trie.kind \in {"Root", "IntermOrLeaf"}
       THEN [item |-> drain_children(trie),
             unvisited |-> rest \o trie.children \o <<PhantomSibling>>]
       ELSE [item |-> trie, unvisited |-> rest]

\* the whole stream: next() until it answers None
RECURSIVE bf_stream(_)
bf_stream(unvisited) ==
    IF unvisited = <<>> THEN <<>>
    ELSE LET r == NaiveTrieBFIter_next(unvisited)
         IN <<r.item>> \o bf_stream(r.unvisited)

\* ------------------------------------------------------------------------
\* TrieBuilder::build: the LOUDS bits and the label table
\* ------------------------------------------------------------------------
RECURSIVE build_bits(_)
build_bits(stream) ==
    IF stream = <<>> THEN <<>>
    ELSE LET n == Head(stream)
         IN (IF n.kind = "IntermOrLeaf" THEN <<1>>
             ELSE IF n.kind = "PhantomSibling" THEN <<0>>
             ELSE <<>>) \o build_bits(Tail(stream))

RECURSIVE build_labels(_)
build_labels(stream) ==
    IF stream = <<>> THEN <<>>
    ELSE LET n == Head(stream)
         IN (IF n.kind = "IntermOrLeaf" THEN <<n.label>> ELSE <<>>)
            \o build_labels(Tail(stream))

build(trie) ==
    LET stream == bf_stream(NaiveTrieBFIter_new(trie))
    IN [louds_bits |-> <<1, 0>> \o build_bits(stream),
        trie_labels |-> build_labels(stream)]

\* ------------------------------------------------------------------------
\* Louds navigation (indices are zero-based, node numbers one-based)
\* ------------------------------------------------------------------------
\* index of the n-th 0 bit, scanning from index i; -1 when there is none
RECURSIVE select0_from(_, _, _)
select0_from(bits, i, n) ==
    IF i >= Len(bits) THEN -1
    ELSE IF bits[i + 1] = 0
         THEN (IF n = 1 THEN i ELSE select0_from(bits, i + 1, n - 1))
         ELSE select0_from(bits, i + 1, n)

select0(bits, n) == select0_from(bits, 0, n)

\* number of 1 bits in [0, i]
RECURSIVE rank1(_, _)
rank1(bits, i) ==
    IF i < 0 THEN 0 ELSE bits[i + 1] + rank1(bits, i - 1)

\* the run of 1 bits starting at index i
RECURSIVE ones_from(_, _)
ones_from(bits, i) ==
    IF i < Len(bits) /\ bits[i + 1] = 1 THEN <<i>> \o ones_from(bits, i + 1)
    ELSE <<>>

parent_to_children_indices(bits, node_num) ==
    LET z == select0(bits, node_num)
    IN IF z < 0 THEN <<>> ELSE ones_from(bits, z + 1)

parent_to_children_nodes(bits, node_num) ==
    LET idx == parent_to_children_indices(bits, node_num)
    IN [i \in 1..Len(idx) |-> rank1(bits, idx[i])]

\* ------------------------------------------------------------------------
\* map::Trie: accessors.  t is [louds_bits, trie_labels]
\* ------------------------------------------------------------------------
children_node_nums(t, node_num) ==
    parent_to_children_nodes(t.louds_bits, node_num)

\* a variant that looks for a Label child only (as is_prefix_node does)
has_children_node_nums_labels_only(t, node_num) ==
    \E i \in 1..Len(parent_to_children_nodes(t.louds_bits, node_num)) :
        t.trie_labels[parent_to_children_nodes(t.louds_bits, node_num)[i] - 1].tag
            # "Value"

has_children_node_nums(t, node_num) ==
    parent_to_children_indices(t.louds_bits, node_num) # <<>>

\* &self.trie_labels[(node_num.0 - 2) as usize]
trie_label(t, node_num) == t.trie_labels[(node_num - 2) + 1]

\* Some(label), or the panic of label() on a Value cell
label(t, node_num) ==
    LET c == trie_label(t, node_num)
    IN IF c.tag = "Label" THEN Some(c.x)
       ELSE Panic("label() called on value")

\* binary_search_by(|child| self.label(child).cmp(query))
bin_search_by_children_labels(impl, t, query, children) ==
    binary_search_by(impl,
        [i \in 1..Len(children) |->
            LET l == label(t, children[i])
            IN IF l.tag = "panic" THEN "panic" ELSE cmp(l.val, query)])

is_terminal(t, node_num) ==
    IF node_num >= 2
    THEN LET ch == children_node_nums(t, node_num)
         IN IF Len(ch) > 0 THEN trie_label(t, ch[1]).tag = "Value" ELSE FALSE
    ELSE FALSE

value(t, node_num) ==
    IF node_num >= 2
    THEN LET ch == children_node_nums(t, node_num)
         IN IF Len(ch) > 0 /\ trie_label(t, ch[1]).tag = "Value"
            THEN Some(trie_label(t, ch[1]).x)
            ELSE None
    ELSE None

\* a variant that hands out the cell of the node itself
value_mut_of_node(t, node_num) ==
    IF node_num >= 2 THEN Some(node_num) ELSE None

\* value_mut: Some(node number of the Value cell the reference points into)
value_mut(t, node_num) ==
    IF node_num >= 2
    THEN LET ch == children_node_nums(t, node_num)
         IN IF Len(ch) > 0 /\ trie_label(t, ch[1]).tag = "Value"
            THEN Some(ch[1])
            ELSE None
    ELSE None

\* *v = w through the reference into the cell of node_num (trie_label_mut)
write_value(labels, node_num, w) ==
    [labels EXCEPT ![(node_num - 2) + 1].x = w]

\* ------------------------------------------------------------------------
\* map::Trie: searches.  Every descent starts at LoudsNodeNum(1)
\* ------------------------------------------------------------------------
RECURSIVE exact_match_node_loop(_, _, _, _, _)
exact_match_node_loop(impl, t, query, i, cur_node_num) ==
    IF i >= Len(query) THEN None
    ELSE LET children == children_node_nums(t, cur_node_num)
             res == bin_search_by_children_labels(impl, t, query[i + 1], children)
         IN IF res.tag = "panic" THEN res
            ELSE IF res.tag = "Ok"
            THEN LET child_node_num == children[res.val + 1]
                 IN IF i = Len(query) - 1 /\ is_terminal(t, child_node_num)
                    THEN Some(child_node_num)
                    ELSE exact_match_node_loop(impl, t, query, i + 1, child_node_num)
            ELSE None

\* a variant that starts the descent at node number 2
exact_match_node_from_node_2(impl, t, query) ==
    IF Len(t.trie_labels) = 0 THEN None
    ELSE exact_match_node_loop(impl, t, query, 0, 2)

exact_match_node(impl, t, query) == exact_match_node_loop(impl, t, query, 0, 1)

exact_match(impl, t, query) ==
    LET n == exact_match_node(impl, t, query)
    IN IF n.tag = "Some" THEN value(t, n.val) ELSE n

exact_match_mut(impl, t, query) ==
    LET n == exact_match_node(impl, t, query)
    IN IF n.tag = "Some" THEN value_mut(t, n.val) ELSE n

RECURSIVE is_prefix_loop(_, _, _, _, _)
is_prefix_loop(impl, t, query, i, cur_node_num) ==
    IF i >= Len(query) THEN Bool(has_children_node_nums(t, cur_node_num))
    ELSE LET children == children_node_nums(t, cur_node_num)
             res == bin_search_by_children_labels(impl, t, query[i + 1], children)
         IN IF res.tag = "panic" THEN res
            ELSE IF res.tag = "Ok"
            THEN is_prefix_loop(impl, t, query, i + 1, children[res.val + 1])
            ELSE Bool(FALSE)

\* a variant that takes the empty query for a prefix of anything
is_prefix_empty_is_prefix(impl, t, query) ==
    IF query = <<>> THEN Bool(TRUE) ELSE is_prefix_loop(impl, t, query, 0, 1)

is_prefix(impl, t, query) == is_prefix_loop(impl, t, query, 0, 1)

\* the loop that consumes the query in postfix_search and longest_prefix:
\* Some(buffer of the nodes stepped onto), None on a label without a child
RECURSIVE consume_query(_, _, _, _, _, _)
consume_query(impl, t, query, i, cur_node_num, buffer) ==
    IF i >= Len(query) THEN Some(buffer)
    ELSE LET children == children_node_nums(t, cur_node_num)
             res == bin_search_by_children_labels(impl, t, query[i + 1], children)
         IN IF res.tag = "panic" THEN res
            ELSE IF res.tag = "Ok"
            THEN consume_query(impl, t, query, i + 1, children[res.val + 1],
                               Append(buffer, children[res.val + 1]))
            ELSE None

\* a variant of the walk that does not stop at a terminal node
RECURSIVE longest_prefix_walk_past_terminal(_, _, _)
longest_prefix_walk_past_terminal(t, cur_node_num, buffer) ==
    LET ch == children_node_nums(t, cur_node_num)
    IN IF Len(ch) = 1
       THEN longest_prefix_walk_past_terminal(t, ch[1], Append(buffer, ch[1]))
       ELSE buffer

\* "Walk the trie as long as there is only one path and it isn't a terminal"
RECURSIVE longest_prefix_walk(_, _, _)
longest_prefix_walk(t, cur_node_num, buffer) ==
    IF is_terminal(t, cur_node_num) THEN buffer
    ELSE LET ch == children_node_nums(t, cur_node_num)
         IN IF Len(ch) = 1
            THEN longest_prefix_walk(t, ch[1], Append(buffer, ch[1]))
            ELSE buffer

\* buffer.into_iter().map(|x| self.label(x).clone()): the labels collected
RECURSIVE buffer_labels(_, _)
buffer_labels(t, buffer) ==
    IF buffer = <<>> THEN <<>>
    ELSE <<label(t, Head(buffer)).val>> \o buffer_labels(t, Tail(buffer))

longest_prefix(impl, t, query) ==
    LET d == consume_query(impl, t, query, 0, 1, <<>>)
    IN IF d.tag # "Some" THEN d
       ELSE LET cur == IF d.val = <<>> THEN 1 ELSE d.val[Len(d.val)]
                buffer == longest_prefix_walk(t, cur, d.val)
            IN IF buffer = <<>> THEN None
               ELSE IF \E i \in 1..Len(buffer) : label(t, buffer[i]).tag = "panic"
               THEN Panic("label() called on value")
               ELSE Some(buffer_labels(t, buffer))

\* PostfixIter::new(trie, node): the keys below node, as (suffix, value)
\* pairs, depth first with the children of each node taken in order
RECURSIVE postfix_items(_, _, _)
RECURSIVE postfix_children(_, _, _, _)
postfix_items(t, node_num, acc) ==
    postfix_children(t, children_node_nums(t, node_num), 1, acc)

postfix_children(t, ch, i, acc) ==
    IF i > Len(ch) THEN <<>>
    ELSE LET c == trie_label(t, ch[i])
         IN (IF c.tag = "Value" THEN << <<acc, c.x>> >>
             ELSE postfix_items(t, ch[i], Append(acc, c.x)))
            \o postfix_children(t, ch, i + 1, acc)

postfix_search(impl, t, query) ==
    LET d == consume_query(impl, t, query, 0, 1, <<>>)
    IN IF d.tag = "panic" THEN d
       ELSE IF d.tag = "None" THEN Items(<<>>)
       ELSE Items(postfix_items(t, IF d.val = <<>> THEN 1 ELSE d.val[Len(d.val)], <<>>))

\* SearchIter::new(trie, query): descend as the other searches do, then
\* every key of the subtree with the query put back in front
predictive_search(impl, t, query) ==
    LET d == consume_query(impl, t, query, 0, 1, <<>>)
    IN IF d.tag = "panic" THEN d
       ELSE IF d.tag = "None" THEN Items(<<>>)
       ELSE Items(postfix_items(t, IF d.val = <<>> THEN 1 ELSE d.val[Len(d.val)], query))

\* PrefixIter::new(trie, query), collected: descend along the query and, at
\* each step whose node is terminal, emit (prefix so far, value)
RECURSIVE common_prefix_loop(_, _, _, _, _)
common_prefix_loop(impl, t, query, i, cur_node_num) ==
    IF i >= Len(query) THEN Items(<<>>)
    ELSE LET children == children_node_nums(t, cur_node_num)
             res == bin_search_by_children_labels(impl, t, query[i + 1], children)
         IN IF res.tag = "panic" THEN res
            ELSE IF res.tag = "Ok"
            THEN LET child_node_num == children[res.val + 1]
                     rest == common_prefix_loop(impl, t, query, i + 1, child_node_num)
                 IN IF rest.tag = "panic" THEN rest
                    ELSE IF is_terminal(t, child_node_num)
                    THEN Items(<< <<SubSeq(query, 1, i + 1),
                                    value(t, child_node_num).val>> >> \o rest.val)
                    ELSE rest
            ELSE Items(<<>>)

common_prefix_search(impl, t, query) == common_prefix_loop(impl, t, query, 0, 1)

\* ------------------------------------------------------------------------
\* inc_search::IncSearch: a cursor (a node number) over the built trie
\* ------------------------------------------------------------------------
is_prefix_node(t, node_num) ==
    IF node_num >= 2
    THEN \E i \in 1..Len(children_node_nums(t, node_num)) :
            trie_label(t, children_node_nums(t, node_num)[i]).tag # "Value"
    ELSE TRUE

\* Answer::new(is_prefix, is_match)
Answer_new(is_prefix_flag, is_match_flag) ==
    IF is_prefix_flag /\ is_match_flag THEN Some("PrefixAndMatch")
    ELSE IF is_prefix_flag THEN Some("Prefix")
    ELSE IF is_match_flag THEN Some("Match")
    ELSE None

\* IncSearch::query(chr): the answer and the node the cursor is on afterwards
IncSearch_query(impl, t, node, chr) ==
    LET children == children_node_nums(t, node)
        res == bin_search_by_children_labels(impl, t, chr, children)
    IN IF res.tag = "panic" THEN [answer |-> res, node |-> node]
       ELSE IF res.tag = "Ok"
       THEN LET child_node_num == children[res.val + 1]
            IN [answer |-> Answer_new(is_prefix_node(t, child_node_num),
                                      is_terminal(t, child_node_num)),
                node |-> child_node_num]
       ELSE [answer |-> None, node |-> node]

\* IncSearch::query_until(query) from label i on: Ok(last answer) or Err(index
\* of the first label that got no answer), the node the cursor is on
\* afterwards and the number of labels the cursor moved on
RECURSIVE IncSearch_query_until(_, _, _, _, _, _)
IncSearch_query_until(impl, t, node, query, i, result) ==
    IF i >= Len(query)
    THEN [answer |-> IF result.tag = "Some" THEN Ok(result.val) ELSE Err(i),
          node |-> node, moved |-> i]
    ELSE LET r == IncSearch_query(impl, t, node, query[i + 1])
         IN IF r.answer.tag = "panic"
            THEN [answer |-> r.answer, node |-> r.node, moved |-> i]
            ELSE IF r.answer.tag = "None"
            THEN [answer |-> Err(i), node |-> r.node,
                  moved |-> IF r.node = node THEN i ELSE i + 1]
            ELSE IncSearch_query_until(impl, t, r.node, query, i + 1, r.answer)

\* ------------------------------------------------------------------------
\* State
\* ------------------------------------------------------------------------
VARIABLES
    naive_trie,   \* TrieBuilder.naive_trie
    phase,        \* "building" until build() is called, then "built"
    lastv,        \* history: key -> value of its last push (0: never pushed)
    firstv,       \* history: key -> value of its first push (0: never pushed)
    pushes,       \* history: key -> number of times it was pushed
    pairs,        \* history: (key, value) -> number of times it was pushed
    louds_bits,   \* Trie.louds, as the bit string it was made from
    trie_labels,  \* Trie.trie_labels
    ret,          \* the outstanding result of the last search call
    inc_node,     \* IncSearch.node, 0 while there is no IncSearch
    inc_path,     \* history: the labels the cursor has moved on since the root
    inc_prev      \* history: inc_path before the outstanding call

vars == <<naive_trie, phase, lastv, firstv, pushes, pairs, louds_bits, trie_labels,
          ret, inc_node, inc_path, inc_prev>>

inc == <<inc_node, inc_path, inc_prev>>

NoRet == [op |-> "none", query |-> <<>>, tag |-> "None", val |-> 0]
Ret(op, query, r) == [op |-> op, query |-> query, tag |-> r.tag, val |-> r.val]

RECURSIVE SumOver(_, _)
SumOver(f, S) ==
    IF S = {} THEN 0
    ELSE LET x == CHOOSE y \in S : TRUE IN f[x] + SumOver(f, S \ {x})

\* number of push calls so far
npush == SumOver(pushes, Keys)

\* the built trie
trie == [louds_bits |-> louds_bits, trie_labels |-> trie_labels]

Init ==
    /\ naive_trie = make_root
    /\ phase = "building"
    /\ lastv = [k \in Keys |-> 0]
    /\ firstv = [k \in Keys |-> 0]
    /\ pushes = [k \in Keys |-> 0]
    /\ pairs = [kv \in Keys \X Values |-> 0]
    /\ louds_bits = <<>>
    /\ trie_labels = <<>>
    /\ ret = NoRet
    /\ inc_node = 0
    /\ inc_path = <<>>
    /\ inc_prev = <<>>

Push(k, v) ==
    /\ phase = "building"
    /\ npush < MaxPushes
    /\ \E impl \in StdImpls : naive_trie' = push(impl, naive_trie, k, v)
    /\ lastv' = [lastv EXCEPT ![k] = v]
    /\ firstv' = [firstv EXCEPT ![k] = IF @ = 0 THEN v ELSE @]
    /\ pushes' = [pushes EXCEPT ![k] = @ + 1]
    /\ pairs' = [pairs EXCEPT ![<<k, v>>] = @ + 1]
    /\ UNCHANGED <<phase, louds_bits, trie_labels, ret, inc>>

\* TrieBuilder::build consumes the builder; naive_trie keeps the trie that
\* was emitted
Build ==
    /\ phase = "building"
    /\ phase' = "built"
    /\ louds_bits' = build(naive_trie).louds_bits
    /\ trie_labels' = build(naive_trie).trie_labels
    /\ UNCHANGED <<naive_trie, lastv, firstv, pushes, pairs, ret, inc>>

\* a search may be called once the result of the previous one is dropped
CanSearch == phase = "built" /\ ret = NoRet

Frame ==
    UNCHANGED <<naive_trie, phase, lastv, firstv, pushes, pairs, louds_bits, trie_labels, inc>>

ExactMatch(q) ==
    /\ CanSearch
    /\ \E impl \in StdImpls : ret' = Ret("exact_match", q, exact_match(impl, trie, q))
    /\ Frame

IsPrefix(q) ==
    /\ CanSearch
    /\ \E impl \in StdImpls : ret' = Ret("is_prefix", q, is_prefix(impl, trie, q))
    /\ Frame

LongestPrefix(q) ==
    /\ CanSearch
    /\ \E impl \in StdImpls : ret' = Ret("longest_prefix", q, longest_prefix(impl, trie, q))
    /\ Frame

PostfixSearch(q) ==
    /\ CanSearch
    /\ \E impl \in StdImpls : ret' = Ret("postfix_search", q, postfix_search(impl, trie, q))
    /\ Frame

PredictiveSearch(q) ==
    /\ CanSearch
    /\ \E impl \in StdImpls : ret' = Ret("predictive_search", q, predictive_search(impl, trie, q))
    /\ Frame

CommonPrefixSearch(q) ==
    /\ CanSearch
    /\ \E impl \in StdImpls :
          ret' = Ret("common_prefix_search", q, common_prefix_search(impl, trie, q))
    /\ Frame

\* if let Some(v) = trie.exact_match_mut(q) { *v = w }
ExactMatchMut(q, w) ==
    /\ CanSearch
    /\ \E impl \in StdImpls :
          LET r == exact_match_mut(impl, trie, q)
          IN IF r.tag = "Some"
             THEN /\ trie_labels' = write_value(trie_labels, r.val, w)
                  /\ ret' = Ret("exact_match_mut", q, Some(w))
             ELSE /\ UNCHANGED trie_labels
                  /\ ret' = Ret("exact_match_mut", q, r)
    /\ UNCHANGED <<naive_trie, phase, lastv, firstv, pushes, pairs, louds_bits, inc>>

\* the caller lets go of the result
DropResult ==
    /\ phase = "built"
    /\ ret # NoRet
    /\ ret' = NoRet
    /\ Frame

Next ==
    \/ \E k \in Keys, v \in Values : Push(k, v)
    \/ Build
    \/ \E q \in Queries : ExactMatch(q)
    \/ \E q \in Queries : IsPrefix(q)
    \/ \E q \in Queries : LongestPrefix(q)
    \/ \E q \in Queries : PostfixSearch(q)
    \/ \E q \in Queries : PredictiveSearch(q)
    \/ \E q \in Queries : CommonPrefixSearch(q)
    \/ DropResult

Spec == Init /\ [][Next]_vars

\* a call of exact_match_mut on the trie as built, and a write through the
\* reference it returns
NextMut ==
    \/ \E k \in Keys, v \in Values : Push(k, v)
    \/ Build
    \/ \E q \in Queries, w \in Values : ExactMatchMut(q, w)

SpecMut == Init /\ [][NextMut]_vars

\* the builder alone: pushes, then build
NextBuild ==
    \/ \E k \in Keys, v \in Values : Push(k, v)
    \/ Build

SpecBuild == Init /\ [][NextBuild]_vars

\* ------------------------------------------------------------------------
\* Incremental search over the built trie
\* ------------------------------------------------------------------------
Builder == <<naive_trie, phase, lastv, firstv, pushes, pairs, louds_bits, trie_labels>>

\* trie.inc_search(): IncSearch::new puts the cursor on LoudsNodeNum(1)
IncSearchNew ==
    /\ CanSearch
    /\ inc_node = 0
    /\ inc_node' = 1
    /\ UNCHANGED <<Builder, ret, inc_path, inc_prev>>

Query(chr) ==
    /\ CanSearch
    /\ inc_node # 0
    /\ \E impl \in StdImpls :
          LET r == IncSearch_query(impl, trie, inc_node, chr)
          IN /\ inc_node' = r.node
             /\ inc_path' = IF r.node = inc_node THEN inc_path
                             ELSE Append(inc_path, chr)
             /\ ret' = Ret("query", <<chr>>, r.answer)
    /\ inc_prev' = inc_path
    /\ UNCHANGED Builder

QueryUntil(s) ==
    /\ CanSearch
    /\ inc_node # 0
    /\ \E impl \in StdImpls :
          LET r == IncSearch_query_until(impl, trie, inc_node, s, 0, None)
          IN /\ inc_node' = r.node
             /\ inc_path' = inc_path \o SubSeq(s, 1, r.moved)
             /\ ret' = Ret("query_until", s, r.answer)
    /\ inc_prev' = inc_path
    /\ UNCHANGED Builder

\* IncSearch::reset rewinds the cursor to the root
Reset ==
    /\ CanSearch
    /\ inc_node # 0
    /\ inc_node' = 1
    /\ inc_path' = <<>>
    /\ inc_prev' = <<>>
    /\ UNCHANGED <<Builder, ret>>

\* the caller lets go of the answer
DropAnswer ==
    /\ phase = "built"
    /\ ret # NoRet
    /\ ret' = NoRet
    /\ inc_prev' = inc_path
    /\ UNCHANGED <<Builder, inc_node, inc_path>>

NextInc ==
    \/ \E k \in Keys, v \in Values : Push(k, v)
    \/ Build
    \/ IncSearchNew
    \/ \E chr \in Labels : Query(chr)
    \/ \E s \in Queries : QueryUntil(s)
    \/ Reset
    \/ DropAnswer

SpecInc == Init /\ [][NextInc]_vars

\* ------------------------------------------------------------------------
\* Reference notions, stated on the history of the pushes
\* ------------------------------------------------------------------------
StoredKeys == {k \in Keys : pushes[k] > 0}

IsPrefixOf(p, k) == Len(p) <= Len(k) /\ SubSeq(k, 1, Len(p)) = p

\* q is on a stored path: it is the root or a prefix of a stored key
OnStoredPath(q) == q = <<>> \/ \E k \in StoredKeys : IsPrefixOf(q, k)

Built == phase = "built"
Called(op) == Built /\ ret.op = op

\* the cell values held by the Value children of the node that the naive
\* trie reaches along word; <<>> when the path is absent
RECURSIVE NaiveValueCells(_, _)
NaiveValueCells(node, word) ==
    IF word = <<>>
    THEN SelectSeq(node.children, LAMBDA c : c.label.tag = "Value")
    ELSE LET next == SelectSeq(node.children,
                        LAMBDA c : c.label = LabelCell(Head(word)))
         IN IF next = <<>> THEN <<>> ELSE NaiveValueCells(next[1], Tail(word))

\* ------------------------------------------------------------------------
\* C1  Round trip on keys: after build, exact_match of every pushed key,
\*     the empty key included, returns Some of the value of its last push.
\* ------------------------------------------------------------------------
C1_RoundTrip ==
    (Called("exact_match") /\ ret.query \in StoredKeys)
        => (ret.tag = "Some" /\ ret.val = lastv[ret.query])

\* ------------------------------------------------------------------------
\* C2  No match is an empty result, never an abort: for a query that leaves
\*     the stored paths exact_match returns None, is_prefix false,
\*     longest_prefix None and postfix_search nothing, and none panics.
\* ------------------------------------------------------------------------
C2_NoMatchIsEmpty ==
    (Built /\ ret.op # "none" /\ ~OnStoredPath(ret.query)) =>
        /\ ret.tag # "panic"
        /\ ret.op = "exact_match" => ret.tag = "None"
        /\ ret.op = "is_prefix" => (ret.tag = "Bool" /\ ret.val = FALSE)
        /\ ret.op = "longest_prefix" => ret.tag = "None"
        /\ ret.op = "postfix_search" => (ret.tag = "Items" /\ ret.val = <<>>)

\* ------------------------------------------------------------------------
\* C3  Overwrite semantics: a key pushed more than once has, after build,
\*     exact_match = Some of the value of its last push, and the trie holds
\*     a single Value cell for it.
\* ------------------------------------------------------------------------
C3_LastWriteWins ==
    /\ \A k \in Keys : pushes[k] >= 2 => Len(NaiveValueCells(naive_trie, k)) = 1
    /\ (Called("exact_match") /\ ret.query \in Keys /\ pushes[ret.query] >= 2)
            => (ret.tag = "Some" /\ ret.val = lastv[ret.query])

\* ------------------------------------------------------------------------
\* C4  A word pushed twice is just ignored: the second push of a key has no
\*     effect, the trie keeps the value of the first push and exact_match of
\*     the key returns Some of that first value.
\* ------------------------------------------------------------------------
C4_FirstWriteWins ==
    /\ \A k \in Keys : pushes[k] >= 2 =>
            NaiveValueCells(naive_trie, k) = <<make_leaf(firstv[k])>>
    /\ (Called("exact_match") /\ ret.query \in Keys /\ pushes[ret.query] >= 2)
            => (ret.tag = "Some" /\ ret.val = firstv[ret.query])

\* ------------------------------------------------------------------------
\* C5  is_prefix(q) is true exactly when q is a proper prefix of at least
\*     one stored key (false for a stored key that nothing extends).
\* ------------------------------------------------------------------------
C5_IsPrefixProper ==
    Called("is_prefix") =>
        /\ ret.tag = "Bool"
        /\ ret.val = (\E k \in StoredKeys : IsPrefixOf(ret.query, k) /\ k # ret.query)

RECURSIVE NaiveHasChildren(_, _)
NaiveHasChildren(node, word) ==
    IF word = <<>> THEN node.children # <<>>
    ELSE LET next == SelectSeq(node.children,
                        LAMBDA c : c.label = LabelCell(Head(word)))
         IN IF next = <<>> THEN FALSE ELSE NaiveHasChildren(next[1], Tail(word))

C7_IsPrefixWalk ==
    Called("is_prefix") =>
        /\ ret.tag = "Bool"
        /\ ret.val = NaiveHasChildren(naive_trie, ret.query)

\* ------------------------------------------------------------------------
\* C8  longest_prefix(q), for a non-empty q that is on a stored path,
\*     returns q extended along the unique chain below it: it steps to the
\*     only child while the node is not terminal and has exactly one child.
\*     The result has q as a prefix and holds labels only.
\* ------------------------------------------------------------------------
\* labels of the Label children of the node of path p, from the stored keys
ChildLabels(p) ==
    {l \in Labels : \E k \in StoredKeys : IsPrefixOf(Append(p, l), k)}

RECURSIVE UniqueChain(_)
UniqueChain(p) ==
    IF p \in StoredKeys \/ Cardinality(ChildLabels(p)) # 1 THEN p
    ELSE UniqueChain(Append(p, CHOOSE l \in ChildLabels(p) : TRUE))

C8_LongestPrefix ==
    (Called("longest_prefix") /\ ret.query # <<>> /\ OnStoredPath(ret.query)) =>
        /\ ret.tag = "Some"
        /\ ret.val = UniqueChain(ret.query)
        /\ IsPrefixOf(ret.query, ret.val)
        /\ \A i \in 1..Len(ret.val) : ret.val[i] \in Labels

\* longest_prefix went below the node of the query, down to a terminal
C8_Witness ==
    /\ Called("longest_prefix") /\ ret.query # <<>> /\ OnStoredPath(ret.query)
    /\ ret.tag = "Some"
    /\ Len(ret.val) > Len(ret.query)
    /\ ret.val \in StoredKeys

\* ------------------------------------------------------------------------
\* C9  longest_prefix of the empty query returns nothing for every built
\*     trie, whatever keys it stores.
\* ------------------------------------------------------------------------
C9_LongestPrefixEmpty ==
    (Called("longest_prefix") /\ ret.query = <<>>) => ret.tag = "None"

\* ------------------------------------------------------------------------
\* C10 predictive_search(q) yields exactly one pair (k, value of k) for
\*     every stored key k that has q as a prefix, nothing else, in ascending
\*     key order under label comparison.
\* ------------------------------------------------------------------------
LexLess(a, b) ==
    \E i \in 1..(Len(a) + 1) :
        /\ i <= Len(b) + 1
        /\ \A j \in 1..(i - 1) : j <= Len(b) /\ a[j] = b[j]
        /\ IF i > Len(a) THEN i <= Len(b)
           ELSE i <= Len(b) /\ a[i] < b[i]

RECURSIVE Ascending(_)
Ascending(S) ==
    IF S = {} THEN <<>>
    ELSE LET m == CHOOSE x \in S : \A y \in S \ {x} : LexLess(x, y)
         IN <<m>> \o Ascending(S \ {m})

ExpectedPredictive(q) ==
    LET ks == Ascending({k \in StoredKeys : IsPrefixOf(q, k)})
    IN [i \in 1..Len(ks) |-> <<ks[i], lastv[ks[i]]>>]

C10_PredictiveSearch ==
    Called("predictive_search") =>
        /\ ret.tag = "Items"
        /\ ret.val = ExpectedPredictive(ret.query)

\* ------------------------------------------------------------------------
\* C11 common_prefix_search(q) yields exactly one pair (k, value of k) for
\*     every stored key k that is a prefix of q, k = q included, nothing
\*     else, in strictly increasing key length.
\* ------------------------------------------------------------------------
RECURSIVE ExpectedCommonPrefix(_, _)
ExpectedCommonPrefix(q, n) ==
    IF n > Len(q) THEN <<>>
    ELSE (IF SubSeq(q, 1, n) \in StoredKeys
          THEN << <<SubSeq(q, 1, n), lastv[SubSeq(q, 1, n)]>> >> ELSE <<>>)
         \o ExpectedCommonPrefix(q, n + 1)

C11_CommonPrefixSearch ==
    Called("common_prefix_search") =>
        /\ ret.tag = "Items"
        /\ ret.val = ExpectedCommonPrefix(ret.query, 0)

\* ------------------------------------------------------------------------
\* C12 postfix_search(q) yields, for every stored key k = q ++ s, the pair
\*     (s, value of k), the empty suffix included when q is stored: as many
\*     items as predictive_search(q), in the same order; nothing when a
\*     label of q has no matching child.
\* ------------------------------------------------------------------------
ExpectedPostfix(q) ==
    LET ks == ExpectedPredictive(q)
    IN [i \in 1..Len(ks) |->
            <<SubSeq(ks[i][1], Len(q) + 1, Len(ks[i][1])), ks[i][2]>>]

C12_PostfixSearch ==
    Called("postfix_search") =>
        /\ ret.tag = "Items"
        /\ ret.val = ExpectedPostfix(ret.query)
        /\ \A impl \in StdImpls :
              LET p == predictive_search(impl, trie, ret.query)
              IN /\ p.tag = "Items"
                 /\ Len(p.val) = Len(ret.val)
                 /\ \A i \in 1..Len(p.val) :
                        /\ p.val[i][1] = ret.query \o ret.val[i][1]
                        /\ p.val[i][2] = ret.val[i][2]

\* ------------------------------------------------------------------------
\* C13 exact_match_mut changes values only, never structure: after writing
\*     w through the reference returned by exact_match_mut(k),
\*     exact_match(k) = Some(w), exact_match of every other key and
\*     is_prefix return what they returned on the trie as built, every
\*     node's children list is unchanged, and exact_match_mut(q) is Some
\*     exactly when exact_match(q) is Some.
\* ------------------------------------------------------------------------
C13_ValueMutFrame ==
    Called("exact_match_mut") =>
      LET b == build(naive_trie)
          q == ret.query
      IN /\ louds_bits = b.louds_bits
         /\ \A impl \in StdImpls :
                (ret.tag = "Some") = (exact_match(impl, b, q).tag = "Some")
         /\ ret.tag # "Some" => trie_labels = b.trie_labels
         /\ ret.tag = "Some" =>
              /\ Len(trie_labels) = Len(b.trie_labels)
              /\ \A i \in 1..Len(trie_labels) :
                    /\ trie_labels[i].tag = b.trie_labels[i].tag
                    /\ trie_labels[i].tag = "Label" => trie_labels[i] = b.trie_labels[i]
              /\ \A n \in 1..(Len(trie_labels) + 1) :
                    children_node_nums(trie, n) = children_node_nums(b, n)
              /\ \A k \in Keys :
                    LET e == exact_match("base_half", b, k)
                        p == is_prefix("base_half", b, k)
                    IN \A impl \in StdImpls :
                        /\ exact_match(impl, trie, k)
                              = (IF k = q THEN Some(ret.val) ELSE e)
                        /\ is_prefix(impl, trie, k) = p

\* a value was changed through exact_match_mut while another key is stored
C13_Witness ==
    /\ Called("exact_match_mut") /\ ret.tag = "Some"
    /\ ret.val # lastv[ret.query]
    /\ \E k \in StoredKeys : k # ret.query /\ k # <<>>
    /\ \E impl \in StdImpls : exact_match(impl, trie, ret.query) = Some(ret.val)

\* ------------------------------------------------------------------------
\* C14 Empty trie: on a trie built with no pushes, exact_match(q) = None,
\*     longest_prefix(q) = None, postfix_search(q) is empty and
\*     is_prefix(q) = false, for every q, the empty query included.
\* ------------------------------------------------------------------------
C14_EmptyTrie ==
    (Built /\ StoredKeys = {}) =>
        /\ ret.op = "exact_match" => ret.tag = "None"
        /\ ret.op = "longest_prefix" => ret.tag = "None"
        /\ ret.op = "postfix_search" => (ret.tag = "Items" /\ ret.val = <<>>)
        /\ ret.op = "is_prefix" => (ret.tag = "Bool" /\ ret.val = FALSE)

\* is_prefix of the empty query was called on the empty trie
C14_Witness ==
    /\ Built /\ StoredKeys = {}
    /\ louds_bits = <<1, 0, 0>> /\ trie_labels = <<>>
    /\ ret.op = "is_prefix" /\ ret.query = <<>>
    /\ ret.tag = "Bool" /\ ret.val = FALSE

\* ------------------------------------------------------------------------
\* C15 Incremental search never moves on a non-matching label: a query
\*     whose label has no matching child answers None and the cursor stays
\*     on its node, so later queries answer as if it had not been made;
\*     query_until(s) that fails returns the index of the first failing
\*     label and leaves the cursor after the labels before that index.
\* ------------------------------------------------------------------------
\* the node of a path, found by comparing the cells one by one; 0 when the
\* path is absent
RECURSIVE RefNode(_, _, _)
RefNode(t, node_num, path) ==
    IF path = <<>> THEN node_num
    ELSE LET ch == children_node_nums(t, node_num)
             m == {i \in 1..Len(ch) : trie_label(t, ch[i]) = LabelCell(Head(path))}
         IN IF m = {} THEN 0
            ELSE RefNode(t, ch[CHOOSE i \in m : TRUE], Tail(path))

\* index of the first label of s that leaves the stored paths after p;
\* Len(s) when none does
FirstFail(p, s) ==
    LET bad == {i \in 0..(Len(s) - 1) : ~OnStoredPath(p \o SubSeq(s, 1, i + 1))}
    IN IF bad = {} THEN Len(s)
       ELSE CHOOSE i \in bad : \A j \in bad : i <= j

C15_CursorStays ==
    (Built /\ inc_node # 0) =>
        /\ inc_node = RefNode(trie, 1, inc_path)
        /\ (ret.op = "query" /\ ret.tag = "None") => inc_path = inc_prev
        /\ ret.op \in {"query", "query_until"} =>
              LET i == FirstFail(inc_prev, ret.query)
              IN i < Len(ret.query) =>
                    /\ inc_path = inc_prev \o SubSeq(ret.query, 1, i)
                    /\ ret.op = "query" => ret.tag = "None"
                    /\ ret.op = "query_until" => (ret.tag = "Err" /\ ret.val = i)

\* ------------------------------------------------------------------------
\* C16 Incremental search agrees with the one-shot queries: for a cursor on
\*     the root and a non-empty s, query_until(s) returns an Answer whose
\*     match component is true exactly when exact_match(s) is Some and
\*     whose prefix component is true exactly when is_prefix(s) is true,
\*     and it fails exactly when s leaves the stored paths.
\* ------------------------------------------------------------------------
C16_IncAgreesOneShot ==
    (Called("query_until") /\ inc_prev = <<>> /\ ret.query # <<>>) =>
        /\ ret.tag \in {"Ok", "Err"}
        /\ (ret.tag = "Err") = ~OnStoredPath(ret.query)
        /\ \A impl \in StdImpls :
              /\ (ret.tag = "Ok" /\ ret.val \in {"Match", "PrefixAndMatch"})
                    = (exact_match(impl, trie, ret.query).tag = "Some")
              /\ (ret.tag = "Ok" /\ ret.val \in {"Prefix", "PrefixAndMatch"})
                    = (is_prefix(impl, trie, ret.query) = Bool(TRUE))

\* ------------------------------------------------------------------------
\* C17 Build determinism: the naive trie, the breadth-first stream, the
\*     LOUDS bits and the label table depend only on the multiset of pushed
\*     (key, value) pairs, not on the order of the pushes.
\* ------------------------------------------------------------------------
\* n copies of x
RECURSIVE Rep(_, _)
Rep(x, n) == IF n = 0 THEN <<>> ELSE <<x>> \o Rep(x, n - 1)

\* the values in ascending order
RECURSIVE AscendingValues(_)
AscendingValues(S) ==
    IF S = {} THEN <<>>
    ELSE LET m == CHOOSE x \in S : \A y \in S : x <= y
         IN <<m>> \o AscendingValues(S \ {m})

\* the pushed pairs in one fixed order: by key, then by value
RECURSIVE PairsOfKey(_, _)
PairsOfKey(k, vs) ==
    IF vs = <<>> THEN <<>>
    ELSE Rep(<<k, Head(vs)>>, pairs[<<k, Head(vs)>>]) \o PairsOfKey(k, Tail(vs))

RECURSIVE PairsInOrder(_)
PairsInOrder(ks) ==
    IF ks = <<>> THEN <<>>
    ELSE PairsOfKey(Head(ks), AscendingValues(Values)) \o PairsInOrder(Tail(ks))

\* the stored keys in ascending order, each with the value of its last push
LastPairsInOrder ==
    LET ks == Ascending(StoredKeys)
    IN [i \in 1..Len(ks) |-> <<ks[i], lastv[ks[i]]>>]

\* the naive trie after pushing a sequence of pairs
RECURSIVE PushAll(_, _)
PushAll(t, kvs) ==
    IF kvs = <<>> THEN t
    ELSE PushAll(push("base_half", t, Head(kvs)[1], Head(kvs)[2]), Tail(kvs))

SameOutput(reference) ==
    /\ naive_trie = reference
    /\ bf_stream(NaiveTrieBFIter_new(naive_trie))
            = bf_stream(NaiveTrieBFIter_new(reference))
    /\ Built => trie = build(reference)

\* as stated: the output is the one of the same multiset pushed in the
\* fixed order
C17_MultisetDeterminism ==
    SameOutput(PushAll(make_root, PairsInOrder(Ascending(StoredKeys))))

\* amended: the output depends only on the stored keys and the value of the
\* last push of each
C17_LastPushDeterminism ==
    SameOutput(PushAll(make_root, LastPairsInOrder))

\* two keys were pushed, the greater one holding a different value, and
\* the trie was built
C17_Witness ==
    /\ Built
    /\ \E k1, k2 \in StoredKeys : LexLess(k1, k2) /\ lastv[k1] # lastv[k2]
    /\ Len(trie_labels) >= 4

\* ------------------------------------------------------------------------
\* C18 LOUDS soundness: after build, for every real node, the children
\*     given by parent_to_children_nodes, read through the label table at
\*     index node number - 2, are in order the cells of the children list
\*     the node had in the naive trie; a Value node has no children.
\* ------------------------------------------------------------------------
RECURSIVE SoundAt(_, _)
SoundAt(node, node_num) ==
    LET ch == children_node_nums(trie, node_num)
    IN /\ Len(ch) = Len(node.children)
       /\ node.label.tag = "Value" => ch = <<>>
       /\ \A i \in 1..Len(ch) :
            /\ ch[i] >= 2
            /\ (ch[i] - 2) + 1 \in DOMAIN trie_labels
            /\ trie_label(trie, ch[i]) = node.children[i].label
            /\ SoundAt(node.children[i], ch[i])

\* number of nodes below a naive node
RECURSIVE CountBelow(_)
RECURSIVE CountSeq(_)
CountBelow(node) == CountSeq(node.children)
CountSeq(ns) ==
    IF ns = <<>> THEN 0 ELSE 1 + CountBelow(Head(ns)) + CountSeq(Tail(ns))

C18_LoudsSoundness ==
    Built =>
        /\ SoundAt(naive_trie, 1)
        /\ Len(trie_labels) = CountBelow(naive_trie)

\* a built trie with a node below the root that has a Value child and a
\* Label child
C18_Witness ==
    /\ Built
    /\ \E n \in 2..(Len(trie_labels) + 1) :
            /\ Len(children_node_nums(trie, n)) = 2
            /\ trie_label(trie, children_node_nums(trie, n)[1]).tag = "Value"
            /\ trie_label(trie, children_node_nums(trie, n)[2]).tag = "Label"

\* ------------------------------------------------------------------------
\* C19 Children search skips the Value sentinel: for every node of a built
\*     trie and every label, the binary search over the node's children
\*     returns the index of the Label child equal to the label when there
\*     is one and a not-found result otherwise, also when the first child
\*     is a Value cell; it never calls label() on a Value cell, so no
\*     exact_match, is_prefix, postfix_search or longest_prefix panics.
\* ------------------------------------------------------------------------
C19_ChildrenSearchSkipsValue ==
    Built =>
        /\ \A n \in 1..(Len(trie_labels) + 1), l \in Labels, impl \in StdImpls :
              LET ch == children_node_nums(trie, n)
                  r == bin_search_by_children_labels(impl, trie, l, ch)
                  hit == {i \in 1..Len(ch) : trie_label(trie, ch[i]) = LabelCell(l)}
              IN /\ r.tag # "panic"
                 /\ hit # {} => (r.tag = "Ok" /\ r.val + 1 \in hit)
                 /\ hit = {} => r.tag = "Err"
        /\ ret.op \in {"exact_match", "is_prefix", "postfix_search", "longest_prefix"}
              => ret.tag # "panic"

\* ------------------------------------------------------------------------
\* C20 Sorted children: after any sequence of push calls the children of
\*     every node of the naive trie are in ascending cell order, the
\*     optional Value cell first and then the Label cells in strictly
\*     ascending label order, so no two sibling Label cells are equal.
\* ------------------------------------------------------------------------
RECURSIVE SortedBelow(_)
SortedBelow(node) ==
    LET ch == node.children
    IN /\ \A i \in 2..Len(ch) : ch[i].label.tag = "Label"
       /\ \A i \in 1..Len(ch) : ch[i].label.tag \in {"Label", "Value"}
       /\ \A i, j \in 1..Len(ch) :
            (i < j /\ ch[i].label.tag = "Label") => ch[i].label.x < ch[j].label.x
       /\ \A i \in 1..Len(ch) : SortedBelow(ch[i])

C20_SortedChildren == SortedBelow(naive_trie)

\* the root holds a Value cell and, after it, a Label cell with children
\* of its own
C20_Witness ==
    /\ phase = "building"
    /\ Len(naive_trie.children) = 2
    /\ naive_trie.children[1].label.tag = "Value"
    /\ naive_trie.children[2].label.tag = "Label"
    /\ naive_trie.children[2].children # <<>>

\* ------------------------------------------------------------------------
\* C21 Terminal uniqueness: after any sequence of push calls (repeated
\*     keys, keys that are prefixes of one another, in any order) every
\*     node has at most one Value child, and when it has one it is the
\*     first child.
\* ------------------------------------------------------------------------
RECURSIVE OneValueFirst(_)
OneValueFirst(node) ==
    LET ch == node.children
        vs == {i \in 1..Len(ch) : ch[i].label.tag = "Value"}
    IN /\ Cardinality(vs) <= 1
       /\ vs \subseteq {1}
       /\ \A i \in 1..Len(ch) : OneValueFirst(ch[i])

C21_TerminalUniqueness == OneValueFirst(naive_trie)

\* a key was pushed twice, or a key and then a longer key through it
C21_Witness ==
    /\ phase = "building"
    /\ \/ \E k \in Keys : k # <<>> /\ pushes[k] = 2
                /\ Len(NaiveValueCells(naive_trie, k)) = 1
       \/ \E k1, k2 \in StoredKeys : k1 # <<>> /\ k1 # k2 /\ IsPrefixOf(k1, k2)

\* ------------------------------------------------------------------------
\* C22 After any sequence of push calls every Value cell is a child of a
\*     Label cell: a Value cell is never the root, never a direct child of
\*     the root, and never has children of its own.
\* ------------------------------------------------------------------------
\* every Value cell below node has no children and a parent that is a
\* Label cell, or the root when under_root allows it
RECURSIVE ValueCellsPlaced(_, _)
ValueCellsPlaced(node, under_root) ==
    \A i \in 1..Len(node.children) :
        LET c == node.children[i]
        IN /\ c.label.tag = "Value" =>
                /\ c.children = <<>>
                /\ \/ node.kind = "IntermOrLeaf" /\ node.label.tag = "Label"
                   \/ node.kind = "Root" /\ under_root
           /\ ValueCellsPlaced(c, under_root)

C22_ValueUnderLabel ==
    /\ naive_trie.kind = "Root"
    /\ ValueCellsPlaced(naive_trie, FALSE)

\* amended: the Value cell of the empty key is a child of the root
C22_ValueUnderLabelOrRoot ==
    /\ naive_trie.kind = "Root"
    /\ ValueCellsPlaced(naive_trie, pushes[<<>>] > 0)

\* the empty key and a longer key were pushed: a Value cell under the root
\* and one under a Label cell
C22_Witness ==
    /\ phase = "building"
    /\ pushes[<<>>] > 0
    /\ Len(naive_trie.children) = 2
    /\ naive_trie.children[1].label.tag = "Value"
    /\ naive_trie.children[2].children # <<>>
    /\ naive_trie.children[2].children[1].label.tag = "Value"

\* ------------------------------------------------------------------------
\* C23 Sibling-sentinel law: the breadth-first stream of a naive trie with
\*     N real nodes (root, Label nodes and Value nodes) is finite, holds
\*     the N real nodes in level order and exactly N phantom markers; the
\*     k-th phantom comes immediately after the contiguous, ascending
\*     (possibly empty) children group of the k-th real node emitted, so
\*     each child list is closed by exactly one phantom and the stream ends
\*     with a phantom.
\* ------------------------------------------------------------------------
\* the children of the nodes of one level, left to right
RECURSIVE ChildrenOf(_)
ChildrenOf(ns) ==
    IF ns = <<>> THEN <<>> ELSE Head(ns).children \o ChildrenOf(Tail(ns))

\* the nodes of a level and of the levels below it, level by level
RECURSIVE LevelOrderFrom(_)
LevelOrderFrom(level) ==
    IF level = <<>> THEN <<>> ELSE level \o LevelOrderFrom(ChildrenOf(level))

LevelOrder(root) == LevelOrderFrom(<<root>>)

Drained(ns) == [i \in 1..Len(ns) |-> drain_children(ns[i])]

IsPhantom(item) == item.kind = "PhantomSibling"

\* the positions of the phantoms of a stream, in ascending order
PhantomPositions(stream) ==
    LET idx == [i \in 1..Len(stream) |-> i]
    IN SelectSeq(idx, LAMBDA i : IsPhantom(stream[i]))

\* an optional Value cell first, then Label cells in ascending label order
GroupAscending(g) ==
    \A i, j \in 1..Len(g) :
        i < j => /\ g[j].label.tag = "Label"
                 /\ g[i].label.tag = "Label" => g[i].label.x < g[j].label.x

C23_SiblingSentinel ==
    LET stream == bf_stream(NaiveTrieBFIter_new(naive_trie))
        nodes  == LevelOrder(naive_trie)
        N      == Len(nodes)
        ph     == PhantomPositions(stream)
        \* the position before the children group of the k-th real node
        start(k) == IF k = 1 THEN 1 ELSE ph[k - 1]
    IN /\ N = 1 + CountBelow(naive_trie)
       /\ Len(stream) = 2 * N
       /\ SelectSeq(stream, LAMBDA item : ~IsPhantom(item)) = Drained(nodes)
       /\ Len(ph) = N
       /\ stream[1] = drain_children(naive_trie)
       /\ \A k \in 1..N :
            LET group == SubSeq(stream, start(k) + 1, ph[k] - 1)
            IN /\ group = Drained(nodes[k].children)
               /\ GroupAscending(group)
       /\ IsPhantom(stream[Len(stream)])

\* a trie with a node of two children, a node of one child and a node
\* with an empty children group
C23_Witness ==
    LET nodes == LevelOrder(naive_trie)
    IN /\ phase = "building"
       /\ \E k \in 1..Len(nodes) : Len(nodes[k].children) >= 2
       /\ \E k \in 1..Len(nodes) : Len(nodes[k].children) = 1
       /\ \E k \in 1..Len(nodes) : nodes[k].children = <<>>

\* ------------------------------------------------------------------------
\* C24 Every search operation (exact_match, exact_match_mut, is_prefix,
\*     postfix_search, longest_prefix) starts its descent at node number 2,
\*     the real root; node number 1 is the synthetic super-root and is
\*     never the current node of a descent.
\* ------------------------------------------------------------------------
\* node numbers of the built trie: the root and one per label-table entry
NodeExists(node_num) == node_num \in 1..(Len(trie_labels) + 1)

\* the answer of a finished search that did not panic is the answer at the
\* node that the labels of the query lead to from node number start
DescentAnswersFrom(start) ==
    LET q == ret.query
        n == RefNode(trie, start, q)
    IN /\ (Called("exact_match") /\ ret.tag = "Some") =>
            /\ q # <<>> /\ n # 0 /\ is_terminal(trie, n)
            /\ ret.val = value(trie, n).val
       /\ (Called("exact_match") /\ ret.tag = "None") =>
            (q = <<>> \/ n = 0 \/ ~is_terminal(trie, n))
       /\ (Called("is_prefix") /\ ret.tag = "Bool") =>
            ret.val = (n # 0 /\ has_children_node_nums(trie, n))
       /\ (Called("postfix_search") /\ ret.tag = "Items") =>
            ret.val = IF n = 0 THEN <<>> ELSE postfix_items(trie, n, <<>>)
       /\ (Called("longest_prefix") /\ ret.tag = "Some") =>
            /\ n # 0 /\ IsPrefixOf(q, ret.val)
            /\ RefNode(trie, start, ret.val) # 0
       /\ (Called("longest_prefix") /\ ret.tag = "None") =>
            (q = <<>> \/ n = 0)

C24_DescentFromNode2 == (Built /\ NodeExists(2)) => DescentAnswersFrom(2)

\* amended: every search starts its descent at node number 1, the root
C24_DescentFromNode1 == (Built /\ NodeExists(1)) => DescentAnswersFrom(1)

\* a search answered without a panic, and the answer is not the one at the
\* node its query leads to from node number 2
C24_Witness ==
    /\ Built /\ NodeExists(2)
    /\ ret.op \in {"exact_match", "is_prefix", "postfix_search", "longest_prefix"}
    /\ ret.tag # "panic"
    /\ ~DescentAnswersFrom(2)
    /\ DescentAnswersFrom(1)
====
